---- MODULE Spec2Model ----
(***************************************************************************)
(* Verification model of the Lasso memory-checking verifier of gkr-lasso:  *)
(*   gkr/src/circuit/node/lasso/memory_checking/verifier.rs                *)
(*   gkr/src/circuit/node/lasso/table/range.rs                             *)
(*   gkr/src/poly/terms.rs                                                 *)
(*   src/util.rs                                                           *)
(*                                                                         *)
(* Spec      : one call of MemoryCheckingVerifier::verify, or one direct   *)
(*             call of verify_grand_product, against a transcript whose    *)
(*             contents, challenges and failures are chosen by the         *)
(*             environment, one transcript operation per step.             *)
(* SpecTable : the pure functions of the range table, applied to inputs    *)
(*             drawn from bounded sets.                                    *)
(* SpecTerms : MultilinearPolyTerms::evaluate under every schedule of the  *)
(*             parallel reduces of its Sum and Prod nodes.                 *)
(* SpecChunk : a chunk made by Chunk::new and grown by add_memory calls.    *)
(* SpecHash  : the fingerprint hash for every gamma and tau.               *)
(* SpecParallel : one call of parallelize built with the parallel feature, *)
(*             its spawned tasks interleaved element by element.           *)
(***************************************************************************)
EXTENDS Integers, Sequences, FiniteSets, TLC

VARIABLES
    entry,              \* which function the caller invoked
    chunks,             \* MemoryCheckingVerifier.chunks
    chunks0,            \* the chunks as they were when the call started
    num_reads,          \* verify's argument num_reads
    gamma,              \* verify's argument gamma
    tau,                \* verify's argument tau
    pc,                 \* position of the call
    phase,              \* 0: direct call, 1: read/write product, 2: init/final
    gp,                 \* frame of the running verify_grand_product call
    read_write_xs,      \* verify's local (line 145)
    init_final_read_ys, \* verify's local (line 152)
    y,                  \* verify's local y (line 152)
    offset,             \* verify's local offset (line 160)
    ci,                 \* index of the chunk the map of line 164 is at (1-based)
    opened,             \* the three openings read at line 72-73 for chunk ci
    collected,          \* the per-chunk results collected at line 178
    log,                \* transcript operations performed so far, in order
    result,             \* outcome of the call
    failure,            \* the first failure: what failed and where
    tbl,                \* SpecTable: the range table call under test
    par                 \* SpecParallel: the parallelize call and its tasks

vars == <<entry, chunks, chunks0, num_reads, gamma, tau, pc, phase, gp,
          read_write_xs, init_final_read_ys, y, offset, ci, opened, collected,
          log, result, failure, tbl, par>>

verifierVars == <<entry, chunks, chunks0, num_reads, gamma, tau, pc, phase, gp,
          read_write_xs, init_final_read_ys, y, offset, ci, opened, collected,
          log, result, failure>>

----------------------------------------------------------------------------
(* Bounds of the model *)

\* largest num_reads / chunk_bits / num_vars given to a call
MaxNumVars == 2
\* largest number of lanes of a direct verify_grand_product call
MaxLanes == 2
\* largest LIMB_BITS and NUM_BITS of a range table
MaxLimbBits == 4
MaxNumBits == 5

----------------------------------------------------------------------------
(* The field.  F and E are type parameters of the verifier; the model takes  *)
(* both to be the prime field of order P.                                    *)

P == 3

Field == 0 .. (P - 1)

\* values the environment puts on the transcript, and the challenges it draws
Felts == {0, 1}
Challenges == {0, 1}
\* the fingerprint challenges gamma and tau given to verify
Gammas == {2}
Taus == {2}

Add(a, b) == (a + b) % P
Sub(a, b) == (a - b + P) % P
Mul(a, b) == (a * b) % P

RECURSIVE FieldPow(_, _)
FieldPow(a, e) == IF e = 0 THEN 1 % P ELSE Mul(a, FieldPow(a, e - 1))

RECURSIVE SumSeq(_)
SumSeq(s) == IF s = <<>> THEN 0 ELSE Add(Head(s), SumSeq(Tail(s)))

RECURSIVE ProdSeq(_)
ProdSeq(s) == IF s = <<>> THEN 1 % P ELSE Mul(Head(s), ProdSeq(Tail(s)))

\* all sequences over S of length exactly n
SeqsOfLen(S, n) == [1 .. n -> S]

\* outcome of a computation that may panic
Value(v) == [panic |-> FALSE, val |-> v]
Panic == [panic |-> TRUE, val |-> 0]

----------------------------------------------------------------------------
(* util.rs *)

div_ceil(dividend, divisor) == (dividend + divisor - 1) \div divisor

\* izip_eq!(lhs, rhs).map(|(l, r)| l * r).sum(); both callers pass equal lengths
inner_product(lhs, rhs) ==
    SumSeq([i \in 1 .. Len(lhs) |-> Mul(lhs[i], rhs[i])])

----------------------------------------------------------------------------
(* poly/terms.rs: PolyExpr and MultilinearPolyTerms *)

Const(c) == [tag |-> "Const", val |-> c, kids |-> <<>>]
Var(i) == [tag |-> "Var", val |-> i, kids |-> <<>>]
SumExpr(v) == [tag |-> "Sum", val |-> 0, kids |-> v]
ProdExpr(v) == [tag |-> "Prod", val |-> 0, kids |-> v]
PowExpr(inner, e) == [tag |-> "Pow", val |-> e, kids |-> <<inner>>]

MultilinearPolyTerms_new(num_vars, expression) ==
    [num_vars |-> num_vars, expression |-> expression]

\* x[*i] of line 40 is in bounds for every Var of the expression
RECURSIVE VarsInBounds(_, _)
VarsInBounds(expr, n) ==
    IF expr.tag = "Var" THEN expr.val < n
    ELSE \A k \in 1 .. Len(expr.kids) : VarsInBounds(expr.kids[k], n)

\* PolyExpr::evaluate on a point that every Var index is in bounds for
RECURSIVE PolyExpr_evaluate(_, _)
PolyExpr_evaluate(expr, x) ==
    CASE expr.tag = "Const" -> Mul(1, expr.val % P)
      [] expr.tag = "Var" -> x[expr.val + 1]
      [] expr.tag = "Sum" ->
            SumSeq([k \in 1 .. Len(expr.kids) |-> PolyExpr_evaluate(expr.kids[k], x)])
      [] expr.tag = "Prod" ->
            ProdSeq([k \in 1 .. Len(expr.kids) |-> PolyExpr_evaluate(expr.kids[k], x)])
      [] expr.tag = "Pow" -> FieldPow(PolyExpr_evaluate(expr.kids[1], x), expr.val)

\* MultilinearPolyTerms::evaluate: the length assertion, then the expression
MultilinearPolyTerms_evaluate(poly, x) ==
    IF Len(x) # poly.num_vars THEN Panic
    ELSE IF ~VarsInBounds(poly.expression, Len(x)) THEN Panic
    ELSE Value(PolyExpr_evaluate(poly.expression, x))

----------------------------------------------------------------------------
(* table/range.rs: the symbolic subtable polynomial of one limb *)

\* the terms pushed by the loop (1..bits).for_each of lines 216-221 / 229-234
RECURSIVE LimbTermsLoop(_, _, _)
LimbTermsLoop(i, bits, terms) ==
    IF i >= bits THEN terms
    ELSE LimbTermsLoop(i + 1, bits,
            Append(terms, ProdExpr(<<PowExpr(Const(2), i), Var(i)>>)))

\* LimbPolyTerms with the initial term Var(0) lost
LimbPolyTermsFromOne(bits) ==
    MultilinearPolyTerms_new(bits, SumExpr(LimbTermsLoop(1, bits, <<>>)))

\* MultilinearPolyTerms::new(bits, PolyExpr::Sum(limb_terms)), lines 214-222
LimbPolyTerms(bits) ==
    MultilinearPolyTerms_new(bits, SumExpr(LimbTermsLoop(1, bits, <<Var(0)>>)))

----------------------------------------------------------------------------
(* memory_checking/verifier.rs: Memory and Chunk *)

Memory_new(memory_index, subtable_poly) ==
    [memory_index |-> memory_index, subtable_poly |-> subtable_poly]

Chunk_new(chunk_index, chunk_bits, memory) ==
    [chunk_index |-> chunk_index, chunk_bits |-> chunk_bits, memory |-> <<memory>>]

\* Chunk_add_memory putting the memory in place of the ones held
Chunk_add_memory_replacing(chunk, memory) ==
    [chunk EXCEPT !.memory = <<memory>>]

Chunk_add_memory(chunk, memory) ==
    [chunk EXCEPT !.memory = Append(chunk.memory, memory)]

Chunk_num_memories(chunk) == Len(chunk.memory)

Chunk_chunk_bits(chunk) == chunk.chunk_bits

\* Chunk::memory_indices, lines 55-60
Chunk_memory_indices(chunk) ==
    [i \in 1 .. Len(chunk.memory) |-> chunk.memory[i].memory_index]

\* a chunk of n >= 1 memories over the limb polynomial of its width, built
\* the way callers build it: Chunk::new, then add_memory n - 1 times
RECURSIVE BuildChunk(_, _, _, _)
BuildChunk(chunk_index, chunk_bits, first_memory, n) ==
    IF n = 1
    THEN Chunk_new(chunk_index, chunk_bits,
                   Memory_new(first_memory, LimbPolyTerms(chunk_bits)))
    ELSE Chunk_add_memory(
            BuildChunk(chunk_index, chunk_bits, first_memory, n - 1),
            Memory_new(first_memory + n - 1, LimbPolyTerms(chunk_bits)))

RECURSIVE SumTo(_, _)
SumTo(s, n) == IF n = 0 THEN 0 ELSE s[n] + SumTo(s, n - 1)

\* memories per chunk of the verifiers checked: no chunk, one chunk of one or
\* of two memories, two chunks of one memory each
Shapes == { <<>>, <<1>>, <<2>>, <<1, 1>> }

\* widths of n chunks as a decomposable table gives them (range.rs, lines
\* 146-156): one limb width for every chunk, the last one possibly shorter
Widths(n) ==
    { b \in SeqsOfLen(1 .. MaxNumVars, n) :
        \A c \in 1 .. n : IF c < n THEN b[c] = b[1] ELSE b[c] <= b[1] }

ChunksOf(shape, bits) ==
    [c \in 1 .. Len(shape) |->
        BuildChunk(c - 1, bits[c], SumTo(shape, c - 1), shape[c])]

ChunkLists ==
    UNION { { ChunksOf(s, b) : b \in Widths(Len(s)) } : s \in Shapes }

\* self.chunks.iter().map(|chunk| chunk.num_memories()).sum(), line 143
RECURSIVE TotalMemories(_)
TotalMemories(cs) ==
    IF cs = <<>> THEN 0 ELSE Chunk_num_memories(Head(cs)) + TotalMemories(Tail(cs))

----------------------------------------------------------------------------
(* Transcript operations as they are recorded in the log *)

\* `by` is the call that issued the operation: 0 the direct grand product,
\* 1 the read/write product, 2 the init/final product, 3 verify_memories
Op(op, n, what) == [op |-> op, n |-> n, what |-> what, by |-> 0]
By(o, k) == [o EXCEPT !.by = k]

OpReadClaim == Op("read_felt_ext", 1, "claim")
OpAbsorbClaim == Op("common_felts", 1, "claim")
OpSqueezeGamma == Op("squeeze_challenge", 1, "gamma")
OpSumCheck(n) == Op("verify_sum_check", n, "sum_check")
OpReadLeaves(n) == Op("read_felt_exts", n, "leaves")
OpSqueezeMu == Op("squeeze_challenge", 1, "mu")
OpReadOpenings == Op("read_felts_as_exts", 3, "dim,read_ts,final_cts")
\* OpReadEPolys reading one opening whatever the number of memories
OpReadEPolysOne(n) == Op("read_felts_as_exts", 1, "e_poly")
OpReadEPolys(n) == Op("read_felts_as_exts", n, "e_poly")

None == [some |-> FALSE, val |-> 0]
Some(v) == [some |-> TRUE, val |-> v]

Running == "Running"
Ok == "Ok"
ErrTranscript == "Err(transcript)"
ErrUnmatched == "Err(InvalidSumCheck(unmatched sum check output))"
ErrSumCheck == "Err(verify_sum_check)"
Panicked == "panic"

NoFailure == [step |-> "none", at |-> 0, err |-> Running]
Failure(step, at, err) == [step |-> step, at |-> at, err |-> err]

\* frame of verify_grand_product(num_vars, claimed_v_0s, transcript)
Frame(num_vars, claimed_v_0s) ==
    [num_vars |-> num_vars,
     opts |-> claimed_v_0s,      \* the collected argument, line 203
     claimed |-> <<>>,           \* claimed_v_0s / claimed_v_ys of the fold
     point |-> <<>>,             \* the fold's accumulated point
     round |-> 0,                \* the closure's num_vars: index of the round
     gamma |-> 0,                \* batching challenge of the round
     x |-> <<>>,                 \* point of the round before mu is pushed
     evals |-> <<>>,             \* leaf evaluations of the round
     rounds_done |-> 0]

NoFrame == Frame(0, <<>>)

----------------------------------------------------------------------------
(* memory_checking/verifier.rs: the fingerprint checks of verify_memories *)

\* hash with gamma in place of gamma.square()
hashLinear(a, v, t) == Sub(Add(Add(a, Mul(v, gamma)), Mul(t, gamma)), tau)

\* the closure of line 159: *a + *v * gamma + *t * gamma.square() - tau
hash(a, v, t) == Sub(Add(Add(a, Mul(v, gamma)), Mul(t, Mul(gamma, gamma))), tau)

\* iter::successors(Some(E::ONE), |p| Some(p.double())).take(n), lines 76-78
RECURSIVE PowersOfTwo(_)
PowersOfTwo(n) ==
    IF n = 0 THEN <<>>
    ELSE IF n = 1 THEN <<1 % P>>
    ELSE LET prev == PowersOfTwo(n - 1) IN Append(prev, Add(prev[n - 1], prev[n - 1]))

\* id_poly_y of lines 75-81
id_poly(yy) == inner_product(PowersOfTwo(Len(yy)), yy)

\* the openings verify_memories reads: lines 72-74
Openings(three, e_poly_xs) ==
    [dim_x |-> three[1], read_ts_poly_x |-> three[2],
     final_cts_poly_y |-> three[3], e_poly_xs |-> e_poly_xs]

\* ReadWriteMatch with the assertion on write_xs lost
ReadWriteMatchReadOnly(i, read_xs, write_xs, o) ==
    read_xs[i] = hash(o.dim_x, o.e_poly_xs[i], o.read_ts_poly_x)

\* the two assert_eq! of lines 83-87 for memory i of the chunk
ReadWriteMatch(i, read_xs, write_xs, o) ==
    /\ read_xs[i] = hash(o.dim_x, o.e_poly_xs[i], o.read_ts_poly_x)
    /\ write_xs[i] = hash(o.dim_x, o.e_poly_xs[i], Add(o.read_ts_poly_x, 1 % P))

\* the two assert_eq! of lines 89-93 for memory i, given subtable_poly(y)
InitFinalMatch(i, init_ys, final_read_ys, yy, subtable_poly_y, o) ==
    /\ init_ys[i] = hash(id_poly(yy), subtable_poly_y, 0)
    /\ final_read_ys[i] = hash(id_poly(yy), subtable_poly_y, o.final_cts_poly_y)

\* the for_each of lines 82-94 from memory i on: "none" when every assertion
\* passes, else the first assertion that panics
RECURSIVE MemoryLoop(_, _, _, _, _, _, _, _)
MemoryLoop(i, chunk, read_xs, write_xs, init_ys, final_read_ys, yy, o) ==
    IF i > Len(chunk.memory) THEN "none"
    ELSE IF ~ReadWriteMatch(i, read_xs, write_xs, o)
    THEN "assert_eq fingerprint"
    ELSE LET sub == MultilinearPolyTerms_evaluate(chunk.memory[i].subtable_poly, yy) IN
         IF sub.panic THEN "assert_eq x.len() == num_vars"
         ELSE IF ~InitFinalMatch(i, init_ys, final_read_ys, yy, sub.val, o)
         THEN "assert_eq fingerprint"
         ELSE MemoryLoop(i + 1, chunk, read_xs, write_xs, init_ys, final_read_ys, yy, o)

\* LaneSlice with the running offset of lines 167-170 lost: every chunk
\* takes the first n lanes
LaneSliceNoOffset(v, half, num_memories, off, n) ==
    LET side == IF half = 1 THEN SubSeq(v, 1, num_memories)
                ELSE SubSeq(v, num_memories + 1, Len(v))
    IN SubSeq(side, 1, n)

\* split_at of lines 150 and 157, then the slices of lines 167-170
LaneSlice(v, half, num_memories, off, n) ==
    LET side == IF half = 1 THEN SubSeq(v, 1, num_memories)
                ELSE SubSeq(v, num_memories + 1, Len(v))
    IN SubSeq(side, off + 1, off + n)

----------------------------------------------------------------------------
(* Hooks of the prover the verifier calls, and the rounds of the fold *)

\* MemoryCheckingProver::layer_down_claim: pairwise (1 - mu) * l + mu * r
layer_down_claim(evals, mu) ==
    [j \in 1 .. (Len(evals) \div 2) |->
        Add(Mul(evals[2 * j - 1], Sub(1 % P, mu)), Mul(evals[2 * j], mu))]

\* ProductsMatch pairing the leaves wrongly: lane j against leaves j and j + 1
ProductsMatchOverlapping(claimed_v_ys, evals) ==
    \A j \in 1 .. Len(claimed_v_ys) :
        claimed_v_ys[j] = Mul(evals[j], evals[j + 1])

\* the comparison of line 226 over izip!(claimed_v_ys, evals.iter().tuples())
ProductsMatch(claimed_v_ys, evals) ==
    \A j \in 1 .. Len(claimed_v_ys) :
        claimed_v_ys[j] = Mul(evals[2 * j - 1], evals[2 * j])

\* NumBatchingOk with the assertion lost
NumBatchingUnchecked(num_batching) == TRUE

\* assert!(num_batching != 0), line 206
NumBatchingOk(num_batching) == num_batching # 0

\* AfterFailure with the error swallowed: the step is tried again
AfterFailureRetry == pc

\* the early return of `?` (lines 73, 74, 149, 156, 178, 217, 224, 240, 243)
\* and of line 227: the call is over
AfterFailure == "done"

\* RoundPc running one round more than num_vars
RoundPcOneMore(num_vars, round) ==
    IF round > num_vars THEN "gp_return"
    ELSE IF round = 0 THEN "gp_first_leaves"
    ELSE "gp_gamma"

\* RoundPc with the product check of line 226 made in every round
RoundPcAlwaysProductCheck(num_vars, round) ==
    IF round >= num_vars THEN "gp_return" ELSE "gp_first_leaves"

\* RoundPc with the branch of line 223 lost: every round runs the sum-check
RoundPcAlwaysSumCheck(num_vars, round) ==
    IF round >= num_vars THEN "gp_return" ELSE "gp_gamma"

\* where (0..num_vars).try_fold goes for the round of index `round`
RoundPc(num_vars, round) ==
    IF round >= num_vars THEN "gp_return"
    ELSE IF round = 0 THEN "gp_first_leaves"
    ELSE "gp_gamma"

\* NextPoint putting mu in front of the point of the round
NextPointPrepend(x, mu) == <<mu>> \o x

\* x.push(mu), line 256: the point the round hands on is the point x of the
\* round (empty in the round of index 0, else the sum-check's) with mu pushed
NextPoint(x, mu) == Append(x, mu)

\* the map of lines 207-217 after `done` of num_batching claims: the next
\* claim, or the fold
ClaimsPc(num_vars, num_batching, done) ==
    IF done >= num_batching THEN RoundPc(num_vars, 0) ELSE "gp_claims"

----------------------------------------------------------------------------
(* Spec: the call *)

TableIdle == [op |-> "idle", NUM_BITS |-> 0, LIMB_BITS |-> 0, arg |-> <<>>, out |-> Value(0)]

\* no parallelize call is being made
NoParallel == [num_threads |-> 0, v |-> <<>>, tasks |-> <<>>, spawned |-> 0]

ClaimOptions == {None} \cup { Some(v) : v \in Felts }

InitVerify ==
    /\ entry = "verify"
    /\ chunks \in ChunkLists
    /\ num_reads \in 0 .. MaxNumVars
    /\ gamma \in Gammas
    /\ tau \in Taus
    /\ pc = "verify"
    /\ gp = NoFrame

InitGrandProduct ==
    /\ entry = "verify_grand_product"
    /\ chunks = <<>>
    /\ num_reads = 0
    /\ gamma = 0
    /\ tau = 0
    /\ pc = "gp_entry"
    /\ \E num_vars \in 0 .. MaxNumVars :
       \E opts \in UNION { SeqsOfLen(ClaimOptions, n) : n \in 0 .. MaxLanes } :
            gp = Frame(num_vars, opts)

Init ==
    /\ InitVerify \/ InitGrandProduct
    /\ chunks0 = chunks
    /\ phase = 0
    /\ read_write_xs = <<>>
    /\ init_final_read_ys = <<>>
    /\ y = <<>>
    /\ offset = 0
    /\ ci = 0
    /\ opened = <<>>
    /\ collected = <<>>
    /\ log = <<>>
    /\ result = Running
    /\ failure = NoFailure
    /\ tbl = TableIdle
    /\ par = NoParallel

\* the call ends: with Ok, with an Err the `?` hands to the caller, or by a panic
Finish(res, step, at) ==
    /\ pc' = IF res \in {Ok, Panicked} THEN "done" ELSE AfterFailure
    /\ result' = res
    /\ failure' = IF res = Ok THEN failure ELSE Failure(step, at, res)

\* verify, lines 143-149: count the memories, take chunks[0].chunk_bits(), and
\* call the read/write grand product with num_reads and 2 * num_memories None
VerifyStart ==
    /\ pc = "verify"
    /\ IF chunks = <<>>
       THEN /\ Finish(Panicked, "index out of bounds: chunks[0]", Len(log))
            /\ UNCHANGED <<gp, phase>>
       ELSE /\ gp' = Frame(num_reads, [j \in 1 .. 2 * TotalMemories(chunks) |-> None])
            /\ phase' = 1
            /\ pc' = "gp_entry"
            /\ UNCHANGED <<result, failure>>
    /\ UNCHANGED <<entry, chunks, chunks0, num_reads, gamma, tau, read_write_xs,
                   init_final_read_ys, y, offset, ci, opened, collected, log, tbl, par>>

\* verify_grand_product, lines 203-206
GrandProductStart ==
    /\ pc = "gp_entry"
    /\ IF NumBatchingOk(Len(gp.opts))
       THEN /\ pc' = ClaimsPc(gp.num_vars, Len(gp.opts), 0)
            /\ UNCHANGED <<result, failure>>
       ELSE Finish(Panicked, "assert num_batching != 0", Len(log))
    /\ UNCHANGED <<entry, chunks, chunks0, num_reads, gamma, tau, phase, gp,
                   read_write_xs, init_final_read_ys, y, offset, ci, opened,
                   collected, log, tbl, par>>

\* one step of the map of lines 207-217: the claim of the next lane is absorbed
\* (Some) or read (None); a failed read ends the try_collect
GrandProductClaim ==
    /\ pc = "gp_claims"
    /\ LET j == Len(gp.claimed) + 1
           claimed == gp.opts[j]
           next(v) == ClaimsPc(gp.num_vars, Len(gp.opts), j)
       IN IF claimed.some
          THEN /\ log' = Append(log, By(OpAbsorbClaim, phase))
               /\ gp' = [gp EXCEPT !.claimed = Append(@, claimed.val)]
               /\ pc' = next(claimed.val)
               /\ UNCHANGED <<result, failure>>
          ELSE /\ log' = Append(log, By(OpReadClaim, phase))
               /\ \/ \E v \in Felts :
                        /\ gp' = [gp EXCEPT !.claimed = Append(@, v)]
                        /\ pc' = next(v)
                        /\ UNCHANGED <<result, failure>>
                  \/ /\ Finish(ErrTranscript, "read_felt_ext", Len(log) + 1)
                     /\ UNCHANGED gp
    /\ UNCHANGED <<entry, chunks, chunks0, num_reads, gamma, tau, phase,
                   read_write_xs, init_final_read_ys, y, offset, ci, opened,
                   collected, tbl, par>>

\* the round of index 0, lines 223-233: read the leaves, compare the products
GrandProductFirstLeaves ==
    /\ pc = "gp_first_leaves"
    /\ log' = Append(log, By(OpReadLeaves(2 * Len(gp.opts)), phase))
    /\ \/ \E evals \in SeqsOfLen(Felts, 2 * Len(gp.opts)) :
            /\ gp' = [gp EXCEPT !.evals = evals, !.x = <<>>]
            /\ IF ProductsMatch(gp.claimed, evals)
               THEN /\ pc' = "gp_mu"
                    /\ UNCHANGED <<result, failure>>
               ELSE Finish(ErrUnmatched, "product check", Len(log) + 1)
       \/ /\ Finish(ErrTranscript, "read_felt_exts", Len(log) + 1)
          /\ UNCHANGED gp
    /\ UNCHANGED <<entry, chunks, chunks0, num_reads, gamma, tau, phase,
                   read_write_xs, init_final_read_ys, y, offset, ci, opened,
                   collected, tbl, par>>

\* a later round, line 235: squeeze the batching challenge
GrandProductSqueezeGamma ==
    /\ pc = "gp_gamma"
    /\ log' = Append(log, By(OpSqueezeGamma, phase))
    /\ \E g \in Challenges : gp' = [gp EXCEPT !.gamma = g]
    /\ pc' = "gp_sumcheck"
    /\ UNCHANGED <<entry, chunks, chunks0, num_reads, gamma, tau, phase,
                   read_write_xs, init_final_read_ys, y, offset, ci, opened,
                   collected, result, failure, tbl, par>>

\* a later round, lines 236-241: verify_sum_check on the polynomial of `round`
\* variables and the claim batched from claimed_v_ys with gamma; it fails, or
\* returns a point of that many challenges.  Neither claimed_v_ys nor gamma is
\* read again in the round, so the frame lets go of them here.
GrandProductSumCheck ==
    /\ pc = "gp_sumcheck"
    /\ log' = Append(log, By(OpSumCheck(gp.round), phase))
    /\ \/ \E x \in SeqsOfLen(Challenges, gp.round) :
            /\ gp' = [gp EXCEPT !.x = x, !.claimed = <<>>, !.gamma = 0]
            /\ pc' = "gp_leaves"
            /\ UNCHANGED <<result, failure>>
       \/ /\ Finish(ErrSumCheck, "verify_sum_check", Len(log) + 1)
          /\ UNCHANGED gp
    /\ UNCHANGED <<entry, chunks, chunks0, num_reads, gamma, tau, phase,
                   read_write_xs, init_final_read_ys, y, offset, ci, opened,
                   collected, tbl, par>>

\* a later round, line 243: read the leaves; nothing is compared with them
GrandProductReadLeaves ==
    /\ pc = "gp_leaves"
    /\ log' = Append(log, By(OpReadLeaves(2 * Len(gp.opts)), phase))
    /\ \/ \E evals \in SeqsOfLen(Felts, 2 * Len(gp.opts)) :
            /\ gp' = [gp EXCEPT !.evals = evals]
            /\ pc' = "gp_mu"
            /\ UNCHANGED <<result, failure>>
       \/ /\ Finish(ErrTranscript, "read_felt_exts", Len(log) + 1)
          /\ UNCHANGED gp
    /\ UNCHANGED <<entry, chunks, chunks0, num_reads, gamma, tau, phase,
                   read_write_xs, init_final_read_ys, y, offset, ci, opened,
                   collected, tbl, par>>

\* every round, lines 253-258: squeeze mu, fold the leaves, push mu
GrandProductSqueezeMu ==
    /\ pc = "gp_mu"
    /\ log' = Append(log, By(OpSqueezeMu, phase))
    /\ \E mu \in Challenges :
            gp' = [gp EXCEPT !.claimed = layer_down_claim(gp.evals, mu),
                             !.point = NextPoint(gp.x, mu),
                             !.round = @ + 1,
                             !.rounds_done = @ + 1,
                             !.gamma = 0, !.x = <<>>, !.evals = <<>>]
    /\ pc' = RoundPc(gp.num_vars, gp.round + 1)
    /\ UNCHANGED <<entry, chunks, chunks0, num_reads, gamma, tau, phase,
                   read_write_xs, init_final_read_ys, y, offset, ci, opened,
                   collected, result, failure, tbl, par>>

\* the direct call returns Ok((claimed, point)), line 220
GrandProductReturn ==
    /\ pc = "gp_return"
    /\ phase = 0
    /\ Finish(Ok, "return", Len(log))
    /\ UNCHANGED <<entry, chunks, chunks0, num_reads, gamma, tau, phase, gp,
                   read_write_xs, init_final_read_ys, y, offset, ci, opened,
                   collected, log, tbl, par>>

\* verify, lines 145-156: the read/write product returned (read_write_xs, x);
\* the init/final product is called with memory_bits = chunks[0].chunk_bits()
VerifyInitFinalProduct ==
    /\ pc = "gp_return"
    /\ phase = 1
    /\ read_write_xs' = gp.claimed
    /\ gp' = Frame(Chunk_chunk_bits(chunks[1]),
                   [j \in 1 .. 2 * TotalMemories(chunks) |-> None])
    /\ phase' = 2
    /\ pc' = "gp_entry"
    /\ UNCHANGED <<entry, chunks, chunks0, num_reads, gamma, tau,
                   init_final_read_ys, y, offset, ci, opened, collected, log,
                   result, failure, tbl, par>>

\* verify, lines 152-164: the init/final product returned (init_final_read_ys, y);
\* offset = 0 and the map over the chunks starts
VerifyChunksStart ==
    /\ pc = "gp_return"
    /\ phase = 2
    /\ init_final_read_ys' = gp.claimed
    /\ y' = gp.point
    /\ offset' = 0
    /\ ci' = 1
    /\ pc' = "vm_openings"
    /\ UNCHANGED <<entry, chunks, chunks0, num_reads, gamma, tau, phase, gp,
                   read_write_xs, opened, collected, log, result, failure, tbl, par>>

\* verify_memories of chunk ci, lines 72-73: read dim_x, read_ts_poly_x and
\* final_cts_poly_y; a failed read is the Err the collect of line 178 stops at
VerifyMemoriesOpenings ==
    /\ pc = "vm_openings"
    /\ log' = Append(log, By(OpReadOpenings, 3))
    /\ \/ \E three \in SeqsOfLen(Felts, 3) :
            /\ opened' = three
            /\ pc' = "vm_e_polys"
            /\ UNCHANGED <<result, failure>>
       \/ /\ Finish(ErrTranscript, "read_felts_as_exts", Len(log) + 1)
          /\ UNCHANGED opened
    /\ UNCHANGED <<entry, chunks, chunks0, num_reads, gamma, tau, phase, gp,
                   read_write_xs, init_final_read_ys, y, offset, ci, collected, tbl, par>>

\* what the collect of line 178 does after the Ok of chunk c: the next chunk,
\* or, after the last one, the Ok(()) of line 195
AfterChunk(c) == IF c = Len(chunks) THEN "return_ok" ELSE "vm_openings"

\* verify_memories of chunk ci, lines 74-95, and lines 175-178 of verify: read
\* one e_poly opening per memory, run the assertions of every memory, return
\* the openings; offset advances and the collect goes on
VerifyMemoriesChecks ==
    /\ pc = "vm_e_polys"
    /\ log' = Append(log, By(OpReadEPolys(Chunk_num_memories(chunks[ci])), 3))
    /\ \/ \E e_poly_xs \in SeqsOfLen(Felts, Chunk_num_memories(chunks[ci])) :
            LET n == Chunk_num_memories(chunks[ci])
                M == TotalMemories(chunks)
                o == Openings(opened, e_poly_xs)
                panic == MemoryLoop(1, chunks[ci],
                            LaneSlice(read_write_xs, 1, M, offset, n),
                            LaneSlice(read_write_xs, 2, M, offset, n),
                            LaneSlice(init_final_read_ys, 1, M, offset, n),
                            LaneSlice(init_final_read_ys, 2, M, offset, n),
                            y, o)
            IN IF panic # "none"
               THEN /\ Finish(Panicked, panic, Len(log) + 1)
                    /\ UNCHANGED <<collected, offset, ci>>
               ELSE /\ collected' = Append(collected, o)
                    /\ offset' = offset + n
                    /\ ci' = ci + 1
                    /\ IF AfterChunk(ci) = "return_ok"
                       THEN Finish(Ok, "return", Len(log) + 1)
                       ELSE /\ pc' = AfterChunk(ci)
                            /\ UNCHANGED <<result, failure>>
       \/ /\ Finish(ErrTranscript, "read_felts_as_exts", Len(log) + 1)
          /\ UNCHANGED <<collected, offset, ci>>
    /\ opened' = <<>>
    /\ UNCHANGED <<entry, chunks, chunks0, num_reads, gamma, tau, phase, gp,
                   read_write_xs, init_final_read_ys, y, tbl, par>>

Next ==
    \/ VerifyStart
    \/ GrandProductStart
    \/ GrandProductClaim
    \/ GrandProductFirstLeaves
    \/ GrandProductSqueezeGamma
    \/ GrandProductSumCheck
    \/ GrandProductReadLeaves
    \/ GrandProductSqueezeMu
    \/ GrandProductReturn
    \/ VerifyInitFinalProduct
    \/ VerifyChunksStart
    \/ VerifyMemoriesOpenings
    \/ VerifyMemoriesChecks

Spec == Init /\ [][Next]_vars

----------------------------------------------------------------------------
(* table/range.rs: FullLimbSubtable and ReminderSubtable *)

RECURSIVE Pow2(_)
Pow2(n) == IF n = 0 THEN 1 ELSE 2 * Pow2(n - 1)

\* F::from(1u64 << i); the shifts of the tables checked stay below 64 bits
FromShl(i) == Pow2(i) % P

\* point[k] of a slice: the element, or the panic of the bounds check
Index(point, k) == IF k < Len(point) THEN Value(point[k + 1]) ELSE Panic

\* FullLimbSubtable::materialize, lines 23-26
FullLimbSubtable_materialize(LIMB_SIZE, M) ==
    IF M # Pow2(LIMB_SIZE) THEN Panic
    ELSE Value([x \in 1 .. M |-> (x - 1) % P])

\* the loop of lines 31-33 from index i on, with b = point.len()
RECURSIVE FullLimbLoop(_, _, _)
FullLimbLoop(point, i, acc) ==
    LET b == Len(point) IN
    IF i >= b THEN Value(acc)
    ELSE IF Index(point, b).panic THEN Panic
    ELSE FullLimbLoop(point, i + 1, Add(acc, Mul(Index(point, b).val, FromShl(i))))

\* FullLimbSubtable::evaluate_mle, lines 28-35
FullLimbSubtable_evaluate_mle(point) == FullLimbLoop(point, 0, 0)

\* ReminderSubtable::materialize, lines 46-54
ReminderSubtable_materialize(NUM_BITS, LIMB_SIZE, M) ==
    IF M # Pow2(LIMB_SIZE) THEN Panic
    ELSE Value([x \in 1 .. Pow2(NUM_BITS % LIMB_SIZE) |-> (x - 1) % P])

\* the loop of lines 60-66 from index i on, with b = point.len()
RECURSIVE ReminderLoop(_, _, _, _)
ReminderLoop(point, remainder, i, acc) ==
    LET b == Len(point) IN
    IF i >= b THEN Value(acc)
    ELSE IF Index(point, b).panic THEN Panic
    ELSE IF i < remainder
    THEN ReminderLoop(point, remainder, i + 1,
                      Add(acc, Mul(Index(point, b).val, FromShl(i))))
    ELSE ReminderLoop(point, remainder, i + 1,
                      Mul(acc, Sub(1 % P, Index(point, b).val)))

\* ReminderSubtable::evaluate_mle, lines 56-68
ReminderSubtable_evaluate_mle(NUM_BITS, LIMB_SIZE, point) ==
    ReminderLoop(point, NUM_BITS % LIMB_SIZE, 0, 0)

----------------------------------------------------------------------------
(* table/range.rs: RangeTable *)

\* chunk_bits without the entry of the remainder limb
RangeTable_chunk_bits_full_only(NUM_BITS, LIMB_BITS) ==
    [i \in 1 .. (NUM_BITS \div LIMB_BITS) |-> LIMB_BITS]

\* RangeTable::chunk_bits, lines 146-156
RangeTable_chunk_bits(NUM_BITS, LIMB_BITS) ==
    LET remainder_bits == IF NUM_BITS % LIMB_BITS # 0
                          THEN <<NUM_BITS % LIMB_BITS>>
                          ELSE <<>>
    IN [i \in 1 .. (NUM_BITS \div LIMB_BITS) |-> LIMB_BITS] \o remainder_bits

\* RangeTable::num_memories, lines 188-190
RangeTable_num_memories(NUM_BITS, LIMB_BITS) == div_ceil(NUM_BITS, LIMB_BITS)

\* subtable_indices keeping only the full limbs (chunks_exact)
RECURSIVE RangeTable_subtable_indices_exact(_, _)
RangeTable_subtable_indices_exact(LIMB_BITS, index_bits) ==
    IF Len(index_bits) < LIMB_BITS THEN <<>>
    ELSE <<SubSeq(index_bits, 1, LIMB_BITS)>>
            \o RangeTable_subtable_indices_exact(LIMB_BITS,
                    SubSeq(index_bits, LIMB_BITS + 1, Len(index_bits)))

\* RangeTable::subtable_indices, lines 192-194: index_bits.chunks(LIMB_BITS)
RECURSIVE RangeTable_subtable_indices(_, _)
RangeTable_subtable_indices(LIMB_BITS, index_bits) ==
    IF index_bits = <<>> THEN <<>>
    ELSE IF Len(index_bits) <= LIMB_BITS THEN <<index_bits>>
    ELSE <<SubSeq(index_bits, 1, LIMB_BITS)>>
            \o RangeTable_subtable_indices(LIMB_BITS,
                    SubSeq(index_bits, LIMB_BITS + 1, Len(index_bits)))

\* iter::successors(Some(F::ONE), |p| Some(*p * weight)).take(n), lines 179-182
RECURSIVE PowersOfWeight(_, _)
PowersOfWeight(weight, n) ==
    IF n = 0 THEN <<>>
    ELSE IF n = 1 THEN <<1 % P>>
    ELSE LET prev == PowersOfWeight(weight, n - 1)
         IN Append(prev, Mul(prev[n - 1], weight))

\* combine_lookups with the weight 2 * LIMB_BITS in place of 1 << LIMB_BITS
RangeTable_combine_lookups_doubled(LIMB_BITS, operands) ==
    inner_product(operands, PowersOfWeight((2 * LIMB_BITS) % P, Len(operands)))

\* RangeTable::combine_lookups, lines 175-186 (and RangeStategy's, lines 77-88)
RangeTable_combine_lookups(LIMB_BITS, operands) ==
    LET weight == FromShl(LIMB_BITS)
    IN inner_product(operands, PowersOfWeight(weight, Len(operands)))

\* RangeTable::subtable_polys, lines 196-211: the dense tables
RangeTable_subtable_polys(NUM_BITS, LIMB_BITS) ==
    LET limb_subtable_poly == [i \in 1 .. Pow2(LIMB_BITS) |-> (i - 1) % P]
        remainder == NUM_BITS % LIMB_BITS
        rem_subtable_poly == [i \in 1 .. Pow2(remainder) |-> (i - 1) % P]
    IN IF NUM_BITS % LIMB_BITS # 0
       THEN <<limb_subtable_poly, rem_subtable_poly>>
       ELSE <<limb_subtable_poly>>

\* RangeTable::subtable_polys_terms, lines 213-240
RangeTable_subtable_polys_terms(NUM_BITS, LIMB_BITS) ==
    IF NUM_BITS % LIMB_BITS = 0
    THEN <<LimbPolyTerms(LIMB_BITS)>>
    ELSE <<LimbPolyTerms(LIMB_BITS), LimbPolyTerms(NUM_BITS % LIMB_BITS)>>

\* RangeTable::memory_to_chunk_index, lines 242-244
RangeTable_memory_to_chunk_index(memory_index) == memory_index

\* RangeTable::memory_to_subtable_index, lines 246-252
RangeTable_memory_to_subtable_index(NUM_BITS, LIMB_BITS, memory_index) ==
    IF NUM_BITS % LIMB_BITS # 0 /\ memory_index = NUM_BITS \div LIMB_BITS
    THEN 1
    ELSE 0

\* the chunks of the verifier of a range table: chunk i is built with
\* chunk_bits()[i] and holds the memory m of memory_to_chunk_index(m) = i,
\* whose polynomial is subtable_polys_terms()[memory_to_subtable_index(m)]
RangeTableChunks(NUM_BITS, LIMB_BITS) ==
    LET bits == RangeTable_chunk_bits(NUM_BITS, LIMB_BITS)
        terms == RangeTable_subtable_polys_terms(NUM_BITS, LIMB_BITS)
    IN [c \in 1 .. RangeTable_num_memories(NUM_BITS, LIMB_BITS) |->
            LET m == CHOOSE m \in 0 .. (Len(bits) - 1) :
                        RangeTable_memory_to_chunk_index(m) = c - 1
            IN Chunk_new(c - 1, bits[c],
                         Memory_new(m, terms[RangeTable_memory_to_subtable_index(
                                                NUM_BITS, LIMB_BITS, m) + 1]))]

----------------------------------------------------------------------------
(* poly/terms.rs: the parallel reduce of PolyExpr::evaluate *)

\* ReduceIdentity giving E::ZERO to the product as well
ReduceIdentityZero(tag) == 0

\* the identity closures of lines 44 and 48: || E::ZERO, || E::ONE
ReduceIdentity(tag) == IF tag = "Sum" THEN 0 ELSE 1 % P

\* the reduce closures of lines 44 and 48: acc + f, acc * f
ReduceOp(tag, acc, f) == IF tag = "Sum" THEN Add(acc, f) ELSE Mul(acc, f)

\* one piece of the split, folded from the identity in the order of the piece
RECURSIVE FoldPiece(_, _)
FoldPiece(tag, s) ==
    IF s = <<>> THEN ReduceIdentity(tag)
    ELSE ReduceOp(tag, FoldPiece(tag, SubSeq(s, 1, Len(s) - 1)), s[Len(s)])

\* par_iter().reduce(identity, op): the values of s are folded in one piece,
\* or split in two at any place, each side reduced the same way and the two
\* results combined left with right; every outcome of every such split
RECURSIVE ReduceSchedules(_, _)
ReduceSchedules(tag, s) ==
    {FoldPiece(tag, s)} \cup
    UNION { { ReduceOp(tag, a, b) :
                a \in ReduceSchedules(tag, SubSeq(s, 1, k)),
                b \in ReduceSchedules(tag, SubSeq(s, k + 1, Len(s))) } :
            k \in 1 .. (Len(s) - 1) }

\* PolyExpr::evaluate, lines 37-51, over every schedule of its reduces: the
\* set of the values it can return on a point every Var is in bounds for
RECURSIVE PolyExpr_evaluate_schedules(_, _)
PolyExpr_evaluate_schedules(expr, x) ==
    LET kids == expr.kids
        mapped == { v \in SeqsOfLen(Field, Len(kids)) :
                      \A k \in 1 .. Len(kids) :
                          v[k] \in PolyExpr_evaluate_schedules(kids[k], x) }
    IN CASE expr.tag = "Const" -> { Mul(1, expr.val % P) }
         [] expr.tag = "Var" -> { x[expr.val + 1] }
         [] expr.tag \in {"Sum", "Prod"} ->
                UNION { ReduceSchedules(expr.tag, v) : v \in mapped }
         [] expr.tag = "Pow" ->
                { FieldPow(v, expr.val) :
                    v \in PolyExpr_evaluate_schedules(kids[1], x) }

\* MultilinearPolyTerms::evaluate, lines 21-24, over every schedule
MultilinearPolyTerms_evaluate_schedules(poly, x) ==
    IF Len(x) # poly.num_vars THEN {Panic}
    ELSE IF ~VarsInBounds(poly.expression, Len(x)) THEN {Panic}
    ELSE { Value(v) : v \in PolyExpr_evaluate_schedules(poly.expression, x) }

----------------------------------------------------------------------------
(* SpecTable: one call of a function of the range table on a fresh table *)

Call(t, op, arg, out) == [t EXCEPT !.op = op, !.arg = arg, !.out = out]

InitTable ==
    /\ entry = "table"
    /\ chunks = <<>>
    /\ chunks0 = <<>>
    /\ num_reads = 0
    /\ gamma = 0
    /\ tau = 0
    /\ pc = "done"
    /\ phase = 0
    /\ gp = NoFrame
    /\ read_write_xs = <<>>
    /\ init_final_read_ys = <<>>
    /\ y = <<>>
    /\ offset = 0
    /\ ci = 0
    /\ opened = <<>>
    /\ collected = <<>>
    /\ log = <<>>
    /\ result = Running
    /\ failure = NoFailure
    /\ \E NUM_BITS \in 1 .. MaxNumBits, LIMB_BITS \in 1 .. MaxLimbBits :
            tbl = [TableIdle EXCEPT !.NUM_BITS = NUM_BITS, !.LIMB_BITS = LIMB_BITS]
    /\ par = NoParallel

FullLimbMaterialize ==
    /\ tbl.op = "idle"
    /\ \E M \in { Pow2(b) : b \in 1 .. MaxLimbBits } :
            tbl' = Call(tbl, "FullLimbSubtable::materialize", <<M>>,
                        FullLimbSubtable_materialize(tbl.LIMB_BITS, M))
    /\ UNCHANGED <<verifierVars, par>>

FullLimbEvaluateMle ==
    /\ tbl.op = "idle"
    /\ \E point \in SeqsOfLen(Field, tbl.LIMB_BITS) :
            tbl' = Call(tbl, "FullLimbSubtable::evaluate_mle", point,
                        FullLimbSubtable_evaluate_mle(point))
    /\ UNCHANGED <<verifierVars, par>>

ReminderMaterialize ==
    /\ tbl.op = "idle"
    /\ \E M \in { Pow2(b) : b \in 1 .. MaxLimbBits } :
            tbl' = Call(tbl, "ReminderSubtable::materialize", <<M>>,
                        ReminderSubtable_materialize(tbl.NUM_BITS, tbl.LIMB_BITS, M))
    /\ UNCHANGED <<verifierVars, par>>

ReminderEvaluateMle ==
    /\ tbl.op = "idle"
    /\ \E point \in SeqsOfLen(Field, tbl.LIMB_BITS) :
            tbl' = Call(tbl, "ReminderSubtable::evaluate_mle", point,
                        ReminderSubtable_evaluate_mle(tbl.NUM_BITS, tbl.LIMB_BITS, point))
    /\ UNCHANGED <<verifierVars, par>>

\* RangeTable::<F, E, NUM_BITS, LIMB_BITS>::new().chunk_bits()
ChunkBits ==
    /\ tbl.op = "idle"
    /\ tbl' = Call(tbl, "RangeTable::chunk_bits", <<>>,
                   Value(RangeTable_chunk_bits(tbl.NUM_BITS, tbl.LIMB_BITS)))
    /\ UNCHANGED <<verifierVars, par>>

NumMemories ==
    /\ tbl.op = "idle"
    /\ tbl' = Call(tbl, "RangeTable::num_memories", <<>>,
                   Value(RangeTable_num_memories(tbl.NUM_BITS, tbl.LIMB_BITS)))
    /\ UNCHANGED <<verifierVars, par>>

\* subtable_indices on the bits the caller has: any Vec<bool>, as the
\* decomposition of a field element that range_test passes (lines 271, 294)
SubtableIndices ==
    /\ tbl.op = "idle"
    /\ \E n \in 0 .. MaxNumBits :
       \E index_bits \in SeqsOfLen({0, 1}, n) :
            tbl' = Call(tbl, "RangeTable::subtable_indices", index_bits,
                        Value(RangeTable_subtable_indices(tbl.LIMB_BITS, index_bits)))
    /\ UNCHANGED <<verifierVars, par>>

CombineLookups ==
    /\ tbl.op = "idle"
    /\ \E n \in 0 .. MaxNumBits :
       \E operands \in SeqsOfLen(Field, n) :
            tbl' = Call(tbl, "RangeTable::combine_lookups", operands,
                        Value(RangeTable_combine_lookups(tbl.LIMB_BITS, operands)))
    /\ UNCHANGED <<verifierVars, par>>

\* subtable_polys_terms()[k].evaluate(point); arg is k followed by the point
SubtablePolysTermsEvaluate ==
    /\ tbl.op = "idle"
    /\ LET terms == RangeTable_subtable_polys_terms(tbl.NUM_BITS, tbl.LIMB_BITS)
       IN \E k \in 1 .. Len(terms) :
          \E point \in SeqsOfLen(Field, terms[k].num_vars) :
            tbl' = Call(tbl, "RangeTable::subtable_polys_terms", <<k - 1>> \o point,
                        MultilinearPolyTerms_evaluate(terms[k], point))
    /\ UNCHANGED <<verifierVars, par>>

NextTable ==
    \/ FullLimbMaterialize
    \/ FullLimbEvaluateMle
    \/ ReminderMaterialize
    \/ ReminderEvaluateMle
    \/ ChunkBits
    \/ NumMemories
    \/ SubtableIndices
    \/ CombineLookups
    \/ SubtablePolysTermsEvaluate

SpecTable == InitTable /\ [][NextTable]_vars

----------------------------------------------------------------------------
(* SpecTerms: MultilinearPolyTerms::evaluate on an expression and a point,   *)
(* the reduces of its Sum and Prod nodes scheduled by the thread pool        *)

\* largest number of children of a Sum or Prod of the expressions evaluated
MaxKids == 3

ExprLeaves == { Const(c) : c \in Field } \cup { Var(i) : i \in 0 .. (MaxNumVars - 1) }

ExprKids == UNION { SeqsOfLen(ExprLeaves, n) : n \in 0 .. MaxKids }

FlatExprs ==
    { SumExpr(v) : v \in ExprKids } \cup { ProdExpr(v) : v \in ExprKids }
        \cup { PowExpr(l, e) : l \in ExprLeaves, e \in 0 .. 2 }

NestedExprs ==
    { SumExpr(<<ProdExpr(<<a, b>>), PowExpr(b, 2), a>>) : a, b \in ExprLeaves }
        \cup { ProdExpr(<<SumExpr(<<a, b>>), SumExpr(<<b, b, a>>), a>>) :
                    a, b \in ExprLeaves }
        \cup { PowExpr(SumExpr(<<a, b>>), e) : a, b \in ExprLeaves, e \in 0 .. 2 }
        \cup { LimbPolyTerms(MaxNumVars).expression }

Exprs == ExprLeaves \cup FlatExprs \cup NestedExprs

InitTerms ==
    /\ entry = "terms"
    /\ chunks = <<>>
    /\ chunks0 = <<>>
    /\ num_reads = 0
    /\ gamma = 0
    /\ tau = 0
    /\ pc = "done"
    /\ phase = 0
    /\ gp = NoFrame
    /\ read_write_xs = <<>>
    /\ init_final_read_ys = <<>>
    /\ y = <<>>
    /\ offset = 0
    /\ ci = 0
    /\ opened = <<>>
    /\ collected = <<>>
    /\ log = <<>>
    /\ result = Running
    /\ failure = NoFailure
    /\ tbl = TableIdle
    /\ par = NoParallel

\* MultilinearPolyTerms::new(num_vars, expr).evaluate(point) under one schedule
TermsEvaluate ==
    /\ tbl.op = "idle"
    /\ \E expr \in Exprs :
       \E point \in SeqsOfLen(Field, MaxNumVars) :
       \E out \in MultilinearPolyTerms_evaluate_schedules(
                    MultilinearPolyTerms_new(MaxNumVars, expr), point) :
            tbl' = Call(tbl, "MultilinearPolyTerms::evaluate", <<expr, point>>, out)
    /\ UNCHANGED <<verifierVars, par>>

NextTerms == TermsEvaluate

SpecTerms == InitTerms /\ [][NextTerms]_vars

----------------------------------------------------------------------------
(* SpecChunk: a chunk made by Chunk::new and grown by add_memory calls; the *)
(* log holds the add_memory calls made, n being the memory index given      *)

\* largest number of add_memory calls made on the chunk
MaxAdds == 3

OpAddMemory(memory_index) == Op("Chunk::add_memory", memory_index, "memory")

InitChunk ==
    /\ entry = "chunk"
    /\ \E chunk_index \in 0 .. 1, chunk_bits \in 1 .. MaxNumVars,
          memory_index \in 0 .. MaxAdds :
            chunks = << Chunk_new(chunk_index, chunk_bits,
                                  Memory_new(memory_index, LimbPolyTerms(chunk_bits))) >>
    /\ chunks0 = chunks
    /\ num_reads = 0
    /\ gamma = 0
    /\ tau = 0
    /\ pc = "done"
    /\ phase = 0
    /\ gp = NoFrame
    /\ read_write_xs = <<>>
    /\ init_final_read_ys = <<>>
    /\ y = <<>>
    /\ offset = 0
    /\ ci = 0
    /\ opened = <<>>
    /\ collected = <<>>
    /\ log = <<>>
    /\ result = Running
    /\ failure = NoFailure
    /\ tbl = TableIdle
    /\ par = NoParallel

\* chunk.add_memory(Memory::new(memory_index, poly))
ChunkAddMemory ==
    /\ entry = "chunk"
    /\ Len(log) < MaxAdds
    /\ \E memory_index \in 0 .. MaxAdds :
            /\ chunks' = << Chunk_add_memory(chunks[1],
                                Memory_new(memory_index,
                                           LimbPolyTerms(Chunk_chunk_bits(chunks[1])))) >>
            /\ log' = Append(log, OpAddMemory(memory_index))
    /\ UNCHANGED <<entry, chunks0, num_reads, gamma, tau, pc, phase, gp,
                   read_write_xs, init_final_read_ys, y, offset, ci, opened,
                   collected, result, failure, tbl, par>>

NextChunk == ChunkAddMemory

SpecChunk == InitChunk /\ [][NextChunk]_vars

----------------------------------------------------------------------------
(* SpecHash: the fingerprints verify_memories compares for one memory, for   *)
(* every gamma and tau verify can be given                                   *)

InitHash ==
    /\ entry = "hash"
    /\ chunks = <<>>
    /\ chunks0 = <<>>
    /\ num_reads = 0
    /\ gamma \in Field
    /\ tau \in Field
    /\ pc = "done"
    /\ phase = 0
    /\ gp = NoFrame
    /\ read_write_xs = <<>>
    /\ init_final_read_ys = <<>>
    /\ y = <<>>
    /\ offset = 0
    /\ ci = 0
    /\ opened = <<>>
    /\ collected = <<>>
    /\ log = <<>>
    /\ result = Running
    /\ failure = NoFailure
    /\ tbl = TableIdle
    /\ par = NoParallel

\* the right-hand sides of the assert_eq! of lines 83-87:
\* hash(&dim_x, &e_poly_xs[i], &read_ts_poly_x) and the same with read_ts + 1
Fingerprints ==
    /\ tbl.op = "idle"
    /\ \E dim_x, e_poly_x, read_ts_poly_x \in Field :
            tbl' = Call(tbl, "hash", <<dim_x, e_poly_x, read_ts_poly_x>>,
                        Value(<<hash(dim_x, e_poly_x, read_ts_poly_x),
                                hash(dim_x, e_poly_x, Add(read_ts_poly_x, 1 % P))>>))
    /\ UNCHANGED <<verifierVars, par>>

NextHash == Fingerprints

SpecHash == InitHash /\ [][NextHash]_vars

----------------------------------------------------------------------------
(* SpecParallel: util.rs, parallelize(v, f) built with the parallel        *)
(* feature. Element j of par.v holds the indices f wrote it under: a task  *)
(* handed (slice, offset) writes slice[k] under the index offset + k, one  *)
(* element per step, so that tasks interleave in every order.              *)

\* largest v.len()
MaxLen == 6

\* largest rayon::current_num_threads()
MaxThreads == 4

\* a spawned closure f((slice, offset)): the 0-based index in v of the slice's
\* first element, the slice's length, the offset passed, and how many
\* elements of the slice f has written
Task(start, len, off) == [start |-> start, len |-> len, offset |-> off, done |-> 0]

\* slice.chunks_exact_mut(chunk_size).enumerate() on v[start .. start + len]:
\* len / chunk_size chunks of chunk_size elements, what is left over is in none
chunks_exact_mut(start, len, chunk_size) ==
    [i \in 1 .. (len \div chunk_size) |->
        [idx |-> i - 1, start |-> start + (i - 1) * chunk_size, len |-> chunk_size]]

\* line 86
parallelize_mid(num_tasks, num_threads) ==
    (num_tasks % num_threads) * ((num_tasks \div num_threads) + 1)

\* the offset of line 98 without mid
parallelize_offset_lo_from_zero(mid, idx, chunk_size_lo) == idx * chunk_size_lo

\* line 98: the offset passed with chunk idx of v_lo
parallelize_offset_lo(mid, idx, chunk_size_lo) == mid + idx * chunk_size_lo

\* lines 82-100: the tasks the scope spawns, in spawn order
parallelize_tasks(num_tasks, num_threads) ==
    LET chunk_size_lo == num_tasks \div num_threads
        chunk_size_hi == chunk_size_lo + 1
        mid == parallelize_mid(num_tasks, num_threads)
        v_hi == chunks_exact_mut(0, mid, chunk_size_hi)
        v_lo == chunks_exact_mut(mid, num_tasks - mid, chunk_size_lo)
        spawn_hi == IF chunk_size_hi > 0
                    THEN [i \in 1 .. Len(v_hi) |->
                            Task(v_hi[i].start, v_hi[i].len,
                                 v_hi[i].idx * chunk_size_hi)]
                    ELSE <<>>
        spawn_lo == IF chunk_size_lo > 0
                    THEN [i \in 1 .. Len(v_lo) |->
                            Task(v_lo[i].start, v_lo[i].len,
                                 parallelize_offset_lo(mid, v_lo[i].idx, chunk_size_lo))]
                    ELSE <<>>
    IN spawn_hi \o spawn_lo

InitParallel ==
    /\ entry = "parallelize"
    /\ chunks = <<>>
    /\ chunks0 = <<>>
    /\ num_reads = 0
    /\ gamma = 0
    /\ tau = 0
    /\ pc = "parallelize"
    /\ phase = 0
    /\ gp = NoFrame
    /\ read_write_xs = <<>>
    /\ init_final_read_ys = <<>>
    /\ y = <<>>
    /\ offset = 0
    /\ ci = 0
    /\ opened = <<>>
    /\ collected = <<>>
    /\ log = <<>>
    /\ result = Running
    /\ failure = NoFailure
    /\ tbl = TableIdle
    /\ \E num_tasks \in 0 .. MaxLen, num_threads \in 1 .. MaxThreads :
            par = [num_threads |-> num_threads,
                   v |-> [j \in 1 .. num_tasks |-> <<>>],
                   tasks |-> <<>>,
                   spawned |-> 0]

\* lines 82-87: the sizes, mid and v.split_at_mut(mid), which panics when mid
\* is beyond the end of v; then rayon::scope is entered
ParallelizeSplit ==
    /\ entry = "parallelize"
    /\ pc = "parallelize"
    /\ IF parallelize_mid(Len(par.v), par.num_threads) > Len(par.v)
       THEN /\ Finish(Panicked, "split_at_mut", 0)
            /\ UNCHANGED par
       ELSE /\ par' = [par EXCEPT !.tasks = parallelize_tasks(Len(par.v), par.num_threads)]
            /\ pc' = "scope"
            /\ UNCHANGED <<result, failure>>
    /\ UNCHANGED <<entry, chunks, chunks0, num_reads, gamma, tau, phase, gp,
                   read_write_xs, init_final_read_ys, y, offset, ci, opened,
                   collected, log, tbl>>

\* lines 93 and 98: scope.spawn of the next chunk, in the order of the two loops
ParallelizeSpawn ==
    /\ entry = "parallelize"
    /\ pc = "scope"
    /\ par.spawned < Len(par.tasks)
    /\ par' = [par EXCEPT !.spawned = @ + 1]
    /\ UNCHANGED <<entry, chunks, chunks0, num_reads, gamma, tau, pc, phase, gp,
                   read_write_xs, init_final_read_ys, y, offset, ci, opened,
                   collected, log, result, failure, tbl>>

\* a spawned task runs on a thread of the pool: f writes the next element of
\* its slice
ParallelizeTaskStep ==
    /\ entry = "parallelize"
    /\ pc = "scope"
    /\ \E i \in 1 .. par.spawned :
            LET t == par.tasks[i] IN
            /\ t.done < t.len
            /\ par' = [par EXCEPT !.v[t.start + t.done + 1] =
                                        Append(@, t.offset + t.done),
                                  !.tasks[i].done = @ + 1]
    /\ UNCHANGED <<entry, chunks, chunks0, num_reads, gamma, tau, pc, phase, gp,
                   read_write_xs, init_final_read_ys, y, offset, ci, opened,
                   collected, log, result, failure, tbl>>

\* line 101: rayon::scope returns once the closure has spawned everything and
\* every spawned task has finished; parallelize returns
ParallelizeReturn ==
    /\ entry = "parallelize"
    /\ pc = "scope"
    /\ par.spawned = Len(par.tasks)
    /\ \A i \in 1 .. Len(par.tasks) : par.tasks[i].done = par.tasks[i].len
    /\ Finish(Ok, "return", 0)
    /\ UNCHANGED <<entry, chunks, chunks0, num_reads, gamma, tau, phase, gp,
                   read_write_xs, init_final_read_ys, y, offset, ci, opened,
                   collected, log, tbl, par>>

NextParallel ==
    \/ ParallelizeSplit
    \/ ParallelizeSpawn
    \/ ParallelizeTaskStep
    \/ ParallelizeReturn

SpecParallel == InitParallel /\ [][NextParallel]_vars

----------------------------------------------------------------------------
(* Helpers of the properties *)

IsPrefix(s, t) == Len(s) <= Len(t) /\ s = SubSeq(t, 1, Len(s))

\* the operations of call k, in the order they were performed
Segment(k) == SelectSeq(log, LAMBDA e : e.by = k)

Whats(s) == [i \in 1 .. Len(s) |-> s[i].what]

RECURSIVE Repeat(_, _)
Repeat(s, n) == IF n = 0 THEN <<>> ELSE s \o Repeat(s, n - 1)

InGrandProduct ==
    pc \in {"gp_claims", "gp_first_leaves", "gp_gamma", "gp_sumcheck",
            "gp_leaves", "gp_mu", "gp_return"}

\* the running (or, at "done", the last) grand product has read all it was to
GrandProductComplete ==
    \/ pc = "gp_return"
    \/ entry = "verify_grand_product" /\ result = Ok

----------------------------------------------------------------------------
(* C1 *)

\* the order the claim states: the claims, then four steps in every round
OrderAsClaimed(num_batching, num_vars) ==
    [j \in 1 .. num_batching |-> "claim"]
        \o Repeat(<<"gamma", "sum_check", "leaves", "mu">>, num_vars)

\* the order of the code: the round of index 0 has no gamma and no sum-check
OrderOfCode(num_batching, num_vars) ==
    [j \in 1 .. num_batching |-> "claim"]
        \o (IF num_vars = 0 THEN <<>> ELSE <<"leaves", "mu">>)
        \o Repeat(<<"gamma", "sum_check", "leaves", "mu">>,
                  IF num_vars = 0 THEN 0 ELSE num_vars - 1)

\* C1 as stated: in verify_grand_product the transcript operations are the
\* lane claims in lane order and then, in every round, squeeze gamma, sum-check,
\* read leaves, squeeze mu, none omitted or reordered.
C1_EveryRoundHasFourSteps ==
    (InGrandProduct \/ pc = "done") =>
        IsPrefix(Whats(Segment(phase)), OrderAsClaimed(Len(gp.opts), gp.num_vars))

\* C1 amended: the transcript operations of a verify_grand_product call are the
\* lane claims in lane order, then in the round of index 0 read leaves, squeeze
\* mu, and in every later round squeeze gamma, sum-check, read leaves, squeeze
\* mu; a call that returns has performed exactly these.
C1_CanonicalOrder ==
    /\ (InGrandProduct \/ pc = "done") =>
            IsPrefix(Whats(Segment(phase)), OrderOfCode(Len(gp.opts), gp.num_vars))
    /\ GrandProductComplete =>
            Whats(Segment(phase)) = OrderOfCode(Len(gp.opts), gp.num_vars)
    /\ \A i \in 1 .. Len(Segment(phase)) :
            Segment(phase)[i].what = "claim" =>
                Segment(phase)[i].op =
                    (IF gp.opts[i].some THEN "common_felts" ELSE "read_felt_ext")

\* a call of two rounds has returned
C1_Witness == pc = "gp_return" /\ gp.num_vars = 2 /\ gp.rounds_done = 2

----------------------------------------------------------------------------
(* C2 *)

\* claimed_v = v_l * v_r in every lane, written out
LaneProductsHold(claimed, evals) ==
    \A j \in 1 .. Len(claimed) : claimed[j] = (evals[2 * j - 1] * evals[2 * j]) % P

\* C2 as stated: a verify_grand_product call with num_vars = 0 reads the leaf
\* pair of every lane and succeeds iff every claim is the product of its pair.
C2_ZeroVarsReadsLeaves ==
    (entry = "verify_grand_product" /\ gp.num_vars = 0 /\ result = Ok) =>
        /\ \E i \in 1 .. Len(log) :
                log[i] = By(Op("read_felt_exts", 2 * Len(gp.opts), "leaves"), 0)
        /\ Len(gp.evals) = 2 * Len(gp.opts)
        /\ LaneProductsHold(gp.claimed, gp.evals)

\* C2 amended: a call with num_vars = 0 runs no round: it reads no leaf and
\* returns the claims as read, with an empty point.  The product check is made
\* in the round of index 0 of a call with num_vars >= 1: the leaf pair of every
\* lane is read, the round goes on iff every claim is the product of its pair,
\* and a mismatch returns Err(InvalidSumCheck("unmatched sum check output")).
C2_FirstRoundProductCheck ==
    /\ (GrandProductComplete /\ gp.num_vars = 0) =>
            /\ \A i \in 1 .. Len(Segment(phase)) : Segment(phase)[i].what = "claim"
            /\ gp.point = <<>>
            /\ Len(gp.claimed) = Len(gp.opts)
            /\ \A j \in 1 .. Len(gp.opts) :
                    gp.opts[j].some => gp.claimed[j] = gp.opts[j].val
    /\ (gp.round = 0 /\ gp.evals # <<>>) =>
            /\ Len(gp.evals) = 2 * Len(gp.opts)
            /\ gp.num_vars >= 1
            /\ IF LaneProductsHold(gp.claimed, gp.evals)
               THEN pc = "gp_mu" /\ result = Running
               ELSE pc = "done" /\ result = ErrUnmatched
    /\ result = ErrUnmatched => gp.round = 0 /\ gp.evals # <<>>

\* a direct call whose first round found a lane that is not the product
C2_Witness ==
    /\ entry = "verify_grand_product"
    /\ result = ErrUnmatched
    /\ Len(gp.opts) = 2
    /\ gp.claimed[2] # (gp.evals[3] * gp.evals[4]) % P
    /\ gp.claimed[1] = (gp.evals[1] * gp.evals[2]) % P

----------------------------------------------------------------------------
(* C3 *)

\* log2 of a power of two
RECURSIVE Log2(_)
Log2(n) == IF n <= 1 THEN 0 ELSE 1 + Log2(n \div 2)

IsPowerOfTwo(n) == \E k \in 0 .. n : Pow2(k) = n

\* C3: verify runs the read/write grand product over log2(num_reads) variables
\* and the init/final one over chunk_bits variables, each with 2 * num_memories
\* lanes; num_reads = 1 gives a read/write product over 0 variables.
C3_ReadWriteOverLog2 ==
    (entry = "verify" /\ phase \in {1, 2}) =>
        /\ Len(gp.opts) = 2 * TotalMemories(chunks)
        /\ phase = 2 => gp.num_vars = chunks[1].chunk_bits
        /\ (phase = 1 /\ IsPowerOfTwo(num_reads)) => gp.num_vars = Log2(num_reads)

----------------------------------------------------------------------------
(* C4 *)

\* h(a, v, t) = a + gamma * v + gamma^2 * t - tau, written out
Fingerprint(a, v, t) == (a + gamma * v + gamma * gamma * t + P - tau) % P

\* sum of 2^i * y[i], written out
IdAt(yy) == SumSeq([i \in 1 .. Len(yy) |-> (Pow2(i - 1) * yy[i]) % P])

\* number of memories of the chunks before chunk c
LanesBefore(c) == TotalMemories(SubSeq(chunks, 1, c - 1))

\* the four equalities of memory k of chunk c on the lanes of that memory
FourEqualities(c, k) ==
    LET M == TotalMemories(chunks)
        lane == LanesBefore(c) + k
        o == collected[c]
        sub == MultilinearPolyTerms_evaluate(chunks[c].memory[k].subtable_poly, y)
    IN /\ read_write_xs[lane] = Fingerprint(o.dim_x, o.e_poly_xs[k], o.read_ts_poly_x)
       /\ read_write_xs[M + lane] =
            Fingerprint(o.dim_x, o.e_poly_xs[k], (o.read_ts_poly_x + 1) % P)
       /\ ~sub.panic
       /\ init_final_read_ys[lane] = Fingerprint(IdAt(y), sub.val, 0)
       /\ init_final_read_ys[M + lane] = Fingerprint(IdAt(y), sub.val, o.final_cts_poly_y)

\* C4: verify returns Ok only if, for every memory of every chunk, the four
\* fingerprint equalities hold on the grand-product outputs of its lane.
C4_OkOnlyIfAllEqualitiesHold ==
    (entry = "verify" /\ result = Ok) =>
        /\ Len(collected) = Len(chunks)
        /\ \A c \in 1 .. Len(chunks) :
                \A k \in 1 .. Len(chunks[c].memory) : FourEqualities(c, k)

\* verify returned Ok for a verifier of two chunks
C4_Witness == entry = "verify" /\ result = Ok /\ Len(chunks) = 2

----------------------------------------------------------------------------
(* C5 *)

\* C5: a failed fingerprint equality reaches the caller as the error value
\* FingerprintMismatch, an Err of the call, and not as an abort of the thread.
C5_MismatchIsAnErr ==
    failure.step = "assert_eq fingerprint" =>
        /\ result = "Err(FingerprintMismatch)"
        /\ result # Panicked

----------------------------------------------------------------------------
(* C6 *)

StructuralPreconditionViolated ==
    \/ entry = "verify" /\ chunks = <<>>
    \/ entry = "verify_grand_product" /\ Len(gp.opts) = 0

\* C6 as stated: an empty chunk list, or a grand product of 0 lanes, makes the
\* call return the error Malformed before any transcript operation.
C6_MalformedIsAnErr ==
    (StructuralPreconditionViolated /\ pc = "done") =>
        result = "Err(Malformed)" /\ log = <<>>

\* C6 amended: an empty chunk list, or a grand product of 0 lanes, makes the
\* call panic (the index chunks[0], the assert! on num_batching) before any
\* transcript operation; no error value is returned.
C6_PreconditionPanics ==
    StructuralPreconditionViolated =>
        /\ log = <<>>
        /\ pc \in {"verify", "gp_entry", "done"}
        /\ pc = "done" => result = Panicked

\* a direct grand product of 0 lanes has panicked
C6_Witness ==
    /\ entry = "verify_grand_product"
    /\ Len(gp.opts) = 0
    /\ result = Panicked
    /\ failure.step = "assert num_batching != 0"

----------------------------------------------------------------------------
(* C7 *)

\* the reads of the openings, chunk by chunk: three, then one per memory
RECURSIVE OpeningsOrder(_)
OpeningsOrder(cs) ==
    IF cs = <<>> THEN <<>>
    ELSE << [op |-> "read_felts_as_exts", n |-> 3,
             what |-> "dim,read_ts,final_cts", by |-> 3],
            [op |-> "read_felts_as_exts", n |-> Len(Head(cs).memory),
             what |-> "e_poly", by |-> 3] >>
         \o OpeningsOrder(Tail(cs))

\* C7: after both grand products, verify reads the openings chunk by chunk in
\* chunk order, in each chunk dim, read_ts, final_cts and then one e_poly per
\* memory of the chunk, and nothing else in between.
C7_OpeningsInChunkOrder ==
    /\ IsPrefix(Segment(3), OpeningsOrder(chunks))
    /\ \A i, j \in 1 .. Len(log) : (log[i].by = 3 /\ log[j].by # 3) => j < i
    /\ Segment(3) # <<>> =>
            /\ Whats(Segment(1)) = OrderOfCode(2 * TotalMemories(chunks), num_reads)
            /\ Whats(Segment(2)) =
                    OrderOfCode(2 * TotalMemories(chunks), chunks[1].chunk_bits)
    /\ (entry = "verify" /\ result = Ok) => Segment(3) = OpeningsOrder(chunks)

\* verify returned Ok after the openings of two chunks were read
C7_Witness ==
    /\ entry = "verify"
    /\ result = Ok
    /\ Len(chunks) = 2
    /\ Len(Segment(3)) = 4

----------------------------------------------------------------------------
(* C8 *)

IsErr(r) == r \in {ErrTranscript, ErrUnmatched, ErrSumCheck}

\* C8: the first error wins: once a transcript read, the sum-check or a product
\* check fails, no further transcript operation and no further check is made,
\* the call returns that error, and the chunks are unchanged.
C8_FirstErrorWins ==
    /\ chunks = chunks0
    /\ failure.step # "none" => result = failure.err
    /\ IsErr(result) =>
            /\ pc = "done"
            /\ failure.err = result
            /\ failure.at = Len(log)
            /\ log[Len(log)].op =
                    (IF failure.step = "product check" THEN "read_felt_exts"
                     ELSE failure.step)
            /\ Len(collected) = ci - (IF ci = 0 THEN 0 ELSE 1)
    /\ (result = Running) = (failure.step = "none" /\ pc # "done")

\* verify ended with the error of a failed sum-check of the init/final product
C8_Witness ==
    /\ entry = "verify"
    /\ phase = 2
    /\ result = ErrSumCheck
    /\ failure.at = Len(log)

----------------------------------------------------------------------------
(* C9 *)

\* sum over i < n of 2^i * point[i]
WeightedSum(point, n) == SumSeq([i \in 1 .. n |-> (Pow2(i - 1) * point[i]) % P])

\* the index whose binary expansion, low bit first, is the point
RECURSIVE IndexOfBits(_)
IndexOfBits(point) ==
    IF point = <<>> THEN 0 ELSE Head(point) + 2 * IndexOfBits(Tail(point))

\* C9: for every point of length LIMB_BITS, FullLimbSubtable::evaluate_mle
\* returns the sum of 2^i * point[i], and at the binary expansion of j it is
\* entry j of materialize(2^LIMB_BITS).
C9_FullLimbIsWeightedSum ==
    tbl.op = "FullLimbSubtable::evaluate_mle" =>
        /\ tbl.out = Value(WeightedSum(tbl.arg, Len(tbl.arg)))
        /\ (\A i \in 1 .. Len(tbl.arg) : tbl.arg[i] \in {0, 1}) =>
                tbl.out.val =
                    FullLimbSubtable_materialize(tbl.LIMB_BITS, Pow2(tbl.LIMB_BITS))
                        .val[IndexOfBits(tbl.arg) + 1]

----------------------------------------------------------------------------
(* C10 *)

\* product over i >= r of (1 - point[i])
VanishingFactor(point, r) ==
    ProdSeq([i \in 1 .. (Len(point) - r) |-> (1 + P - point[r + i]) % P])

\* C10: for every point of length LIMB_BITS and r = NUM_BITS mod LIMB_BITS,
\* ReminderSubtable::evaluate_mle returns (the sum over i < r of 2^i * point[i])
\* times the product over i >= r of (1 - point[i]).
C10_ReminderIsEmbeddedSum ==
    tbl.op = "ReminderSubtable::evaluate_mle" =>
        LET r == tbl.NUM_BITS % tbl.LIMB_BITS IN
        tbl.out = Value((WeightedSum(tbl.arg, r) * VanishingFactor(tbl.arg, r)) % P)

----------------------------------------------------------------------------
(* C11 *)

\* ceil(n / d)
CeilDiv(n, d) == (n \div d) + (IF n % d = 0 THEN 0 ELSE 1)

\* C11: chunk_bits() is LIMB_BITS repeated floor(NUM_BITS / LIMB_BITS) times,
\* followed by NUM_BITS mod LIMB_BITS iff that is nonzero; its entries sum to
\* NUM_BITS and its length is num_memories() = ceil(NUM_BITS / LIMB_BITS).
C11_ChunkBitsShape ==
    LET N == tbl.NUM_BITS
        L == tbl.LIMB_BITS
        q == N \div L
        r == N % L
    IN /\ tbl.op = "RangeTable::chunk_bits" =>
            /\ ~tbl.out.panic
            /\ Len(tbl.out.val) = q + (IF r # 0 THEN 1 ELSE 0)
            /\ \A i \in 1 .. q : tbl.out.val[i] = L
            /\ r # 0 => tbl.out.val[q + 1] = r
            /\ SumTo(tbl.out.val, Len(tbl.out.val)) = N
            /\ Len(tbl.out.val) = RangeTable_num_memories(N, L)
            /\ Len(tbl.out.val) = CeilDiv(N, L)
       /\ tbl.op = "RangeTable::num_memories" => tbl.out = Value(CeilDiv(N, L))

\* chunk_bits of the table with NUM_BITS = LIMB_BITS + 1 returned [4, 1]
C11_Witness ==
    /\ tbl.op = "RangeTable::chunk_bits"
    /\ tbl.NUM_BITS = 5
    /\ tbl.LIMB_BITS = 4
    /\ tbl.out = Value(<<4, 1>>)

----------------------------------------------------------------------------
(* C12 *)

RECURSIVE Concat(_)
Concat(ss) == IF ss = <<>> THEN <<>> ELSE Head(ss) \o Concat(Tail(ss))

Min(a, b) == IF a <= b THEN a ELSE b

\* C12 as stated: for the bits b of a value v < 2^NUM_BITS, subtable_indices(b)
\* returns ceil(NUM_BITS / LIMB_BITS) limbs, limb i of length chunk_bits()[i],
\* whose concatenation is b.
C12_LimbsOfNumBits ==
    (tbl.op = "RangeTable::subtable_indices"
        /\ IndexOfBits(tbl.arg) < Pow2(tbl.NUM_BITS)) =>
        LET cb == RangeTable_chunk_bits(tbl.NUM_BITS, tbl.LIMB_BITS) IN
        /\ Len(tbl.out.val) = CeilDiv(tbl.NUM_BITS, tbl.LIMB_BITS)
        /\ \A i \in 1 .. Len(tbl.out.val) : Len(tbl.out.val[i]) = cb[i]
        /\ Concat(tbl.out.val) = tbl.arg

\* C12 amended: for bits b of any length n, subtable_indices(b) returns
\* ceil(n / LIMB_BITS) limbs in little-endian order, every limb LIMB_BITS long
\* but a last one of n mod LIMB_BITS when that is nonzero, and concatenating
\* them gives b; NUM_BITS plays no part.  The limbs are ceil(NUM_BITS /
\* LIMB_BITS) many with the lengths of chunk_bits() exactly when n = NUM_BITS.
C12_LimbsOfGivenBits ==
    tbl.op = "RangeTable::subtable_indices" =>
        LET n == Len(tbl.arg)
            L == tbl.LIMB_BITS
            limbs == tbl.out.val
            cb == RangeTable_chunk_bits(tbl.NUM_BITS, L)
            lengths == [i \in 1 .. Len(limbs) |-> Len(limbs[i])]
        IN /\ ~tbl.out.panic
           /\ Len(limbs) = CeilDiv(n, L)
           /\ \A i \in 1 .. Len(limbs) :
                /\ Len(limbs[i]) = (IF i < Len(limbs) \/ n % L = 0 THEN L ELSE n % L)
                /\ limbs[i] = SubSeq(tbl.arg, (i - 1) * L + 1, Min(i * L, n))
           /\ Concat(limbs) = tbl.arg
           /\ (lengths = cb) = (n = tbl.NUM_BITS)
           /\ n = tbl.NUM_BITS =>
                Len(limbs) = RangeTable_num_memories(tbl.NUM_BITS, L)

\* the two bits of the value 1 given to the table with NUM_BITS = 4 and
\* LIMB_BITS = 2 came back as one limb, not two
C12_Witness ==
    /\ tbl.op = "RangeTable::subtable_indices"
    /\ tbl.NUM_BITS = 4
    /\ tbl.LIMB_BITS = 2
    /\ tbl.arg = <<1, 0>>
    /\ tbl.out = Value(<< <<1, 0>> >>)

----------------------------------------------------------------------------
(* C13 *)

\* the limbs subtable_indices gives for the bits b, as field elements
LimbValues(LIMB_BITS, b) ==
    LET limbs == RangeTable_subtable_indices(LIMB_BITS, b)
    IN [i \in 1 .. Len(limbs) |-> IndexOfBits(limbs[i]) % P]

\* C13: combine_lookups(x_0 .. x_{k-1}) is the sum of x_i * W^i with W =
\* 2^LIMB_BITS; so combining the limbs subtable_indices gives for the NUM_BITS
\* bits of v gives v back, with and without a remainder limb.
C13_CombineIsWeightedSum ==
    tbl.op = "RangeTable::combine_lookups" =>
        LET L == tbl.LIMB_BITS
            k == Len(tbl.arg)
            summands == [i \in 1 .. k |-> tbl.arg[i] * Pow2(L * (i - 1))]
        IN /\ tbl.out = Value(SumTo(summands, k) % P)
           /\ \A b \in SeqsOfLen({0, 1}, tbl.NUM_BITS) :
                LimbValues(L, b) = tbl.arg => tbl.out.val = IndexOfBits(b) % P

\* the limbs 1, 3, 1 of the value 29 = 1 + 3 * 4 + 1 * 16 of the table with
\* NUM_BITS = 5, LIMB_BITS = 2 (a remainder limb) were combined into 29
C13_Witness ==
    /\ tbl.op = "RangeTable::combine_lookups"
    /\ tbl.NUM_BITS = 5
    /\ tbl.LIMB_BITS = 2
    /\ tbl.arg = LimbValues(2, <<1, 0, 1, 1, 1>>)
    /\ tbl.out = Value(29 % P)

----------------------------------------------------------------------------
(* C14 *)

\* C14: the term polynomials of subtable_polys_terms() are the sums of
\* 2^i * Var(i) over LIMB_BITS variables for the full limb and over r =
\* NUM_BITS mod LIMB_BITS variables for the remainder, and each, at the binary
\* expansion (low bit first) of an index j, is entry j of the dense table of
\* subtable_polys().
C14_TermsAgreeWithDense ==
    tbl.op = "RangeTable::subtable_polys_terms" =>
        LET k == tbl.arg[1] + 1
            point == Tail(tbl.arg)
            bits == IF k = 1 THEN tbl.LIMB_BITS ELSE tbl.NUM_BITS % tbl.LIMB_BITS
            terms == RangeTable_subtable_polys_terms(tbl.NUM_BITS, tbl.LIMB_BITS)
            dense == RangeTable_subtable_polys(tbl.NUM_BITS, tbl.LIMB_BITS)
        IN /\ Len(terms) = Len(dense)
           /\ terms[k].num_vars = bits
           /\ Len(dense[k]) = Pow2(bits)
           /\ tbl.out = Value(WeightedSum(point, bits))
           /\ (\A i \in 1 .. bits : point[i] \in {0, 1}) =>
                tbl.out.val = dense[k][IndexOfBits(point) + 1]

\* the remainder polynomial of the table with NUM_BITS = 5, LIMB_BITS = 3 was
\* evaluated at the expansion (0, 1) of the index 2
C14_Witness ==
    /\ tbl.op = "RangeTable::subtable_polys_terms"
    /\ tbl.NUM_BITS = 5
    /\ tbl.LIMB_BITS = 3
    /\ tbl.arg = <<1, 0, 1>>
    /\ tbl.out = Value(2)

----------------------------------------------------------------------------
(* C15 *)

\* the sequential recursive semantics, children taken first to last
RECURSIVE SequentialValue(_, _)
SequentialValue(expr, x) ==
    LET n == Len(expr.kids)
        rest == [expr EXCEPT !.kids = SubSeq(expr.kids, 1, n - 1)]
    IN CASE expr.tag = "Const" -> expr.val % P
         [] expr.tag = "Var" -> x[expr.val + 1]
         [] expr.tag = "Sum" ->
                IF n = 0 THEN 0
                ELSE (SequentialValue(rest, x) + SequentialValue(expr.kids[n], x)) % P
         [] expr.tag = "Prod" ->
                IF n = 0 THEN 1 % P
                ELSE (SequentialValue(rest, x) * SequentialValue(expr.kids[n], x)) % P
         [] expr.tag = "Pow" ->
                IF expr.val = 0 THEN 1 % P
                ELSE (SequentialValue([expr EXCEPT !.val = @ - 1], x)
                        * SequentialValue(expr.kids[1], x)) % P

\* C15: whatever the order and grouping in which the children of Sum and Prod
\* are reduced, PolyExpr evaluation returns the value of the sequential
\* semantics: Const(c) -> c, Var(i) -> point[i], Sum -> the sum (0 when empty),
\* Prod -> the product (1 when empty), Pow(inner, e) -> inner^e, inner^0 = 1.
C15_ScheduleIndependent ==
    tbl.op = "MultilinearPolyTerms::evaluate" =>
        /\ tbl.out = Value(SequentialValue(tbl.arg[1], tbl.arg[2]))
        /\ tbl.out = MultilinearPolyTerms_evaluate(
                        MultilinearPolyTerms_new(MaxNumVars, tbl.arg[1]), tbl.arg[2])

\* a product of three children was evaluated at the point (2, 2)
C15_Witness ==
    /\ tbl.op = "MultilinearPolyTerms::evaluate"
    /\ tbl.arg = << ProdExpr(<<Var(0), Var(1), Const(2)>>), [i \in 1 .. MaxNumVars |-> 2] >>
    /\ tbl.out = Value(8 % P)

----------------------------------------------------------------------------
(* C16 *)

\* C16: h(a, v, t) = a + gamma * v + gamma^2 * t - tau, and for all gamma, tau,
\* a, v, t the write fingerprint h(a, v, t + 1) exceeds the read fingerprint
\* h(a, v, t) by exactly gamma^2 (gamma = 2, tau = 5, a = 3, v = 4, t = 7: 34).
C16_WriteExceedsReadByGammaSquared ==
    tbl.op = "hash" =>
        LET a == tbl.arg[1]
            v == tbl.arg[2]
            t == tbl.arg[3]
        IN /\ ~tbl.out.panic
           /\ tbl.out.val[1] = (a + gamma * v + gamma * gamma * t + P - tau) % P
           /\ (tbl.out.val[2] + P - tbl.out.val[1]) % P = (gamma * gamma) % P
           /\ (gamma = 2 % P /\ tau = 5 % P /\ tbl.arg = <<3 % P, 4 % P, 7 % P>>) =>
                tbl.out.val[1] = 34 % P

\* the fingerprints of the example, in the field: gamma = 2, tau = 5, a = 3,
\* v = 4, t = 7
C16_Witness ==
    /\ tbl.op = "hash"
    /\ gamma = 2 % P
    /\ tau = 5 % P
    /\ tbl.arg = <<3 % P, 4 % P, 7 % P>>
    /\ tbl.out.val = <<34 % P, (34 + 4) % P>>

----------------------------------------------------------------------------
(* C17 *)

\* verify_memories of the last chunk on the lanes init_ys / final_read_ys given,
\* with the openings o: "none" when every assertion passes
LastChunkChecks(lanes, o) ==
    LET M == TotalMemories(chunks)
        n == Chunk_num_memories(chunks[ci])
    IN MemoryLoop(1, chunks[ci],
                  LaneSlice(read_write_xs, 1, M, offset, n),
                  LaneSlice(read_write_xs, 2, M, offset, n),
                  LaneSlice(lanes, 1, M, offset, n),
                  LaneSlice(lanes, 2, M, offset, n),
                  y, o)

\* the run differs from a run verify accepts in one leaf read in the last round
\* of the init/final product, a round that runs the sum-check: the leaf mu
\* selects for one lane has another value here, the transcript is otherwise
\* the same, and with the accepted run's value the last chunk passes as the
\* chunks before it did
LeafChangedFromAccepted ==
    /\ entry = "verify"
    /\ phase = 2
    /\ pc = "done"
    /\ gp.num_vars >= 2
    /\ gp.rounds_done = gp.num_vars
    /\ ci = Len(chunks)
    /\ Len(collected) = ci - 1
    /\ \E j \in 1 .. Len(init_final_read_ys) :
       \E w \in Felts \ {init_final_read_ys[j]} :
       \E three \in SeqsOfLen(Felts, 3) :
       \E e_poly_xs \in SeqsOfLen(Felts, Chunk_num_memories(chunks[ci])) :
            LET o == Openings(three, e_poly_xs) IN
            /\ LastChunkChecks([init_final_read_ys EXCEPT ![j] = w], o) = "none"
            /\ LastChunkChecks(init_final_read_ys, o) = "assert_eq fingerprint"

\* C17: a run that differs from an accepted one in a single leaf read in the
\* last round of a grand product, and whose fingerprints no longer match, ends
\* with the error InvalidSumCheck or FingerprintMismatch.
C17_LeafChangeIsAnErr ==
    (LeafChangedFromAccepted /\ failure.step = "assert_eq fingerprint") =>
        result \in {ErrUnmatched, ErrSumCheck, "Err(FingerprintMismatch)"}

----------------------------------------------------------------------------
(* C18 *)

\* C18 as stated: after each round the accumulated point is the accumulated
\* point of the round before with the round's mu appended.
C18_PointExtendsPrevious ==
    [][pc = "gp_mu" =>
            \E mu \in Challenges : gp'.point = Append(gp.point, mu)]_vars

\* C18 amended: after the round of index r the accumulated point is the point
\* x of that round (empty in the round of index 0, else the point the sum-check
\* returned) with the round's mu appended, r + 1 elements; the accumulated
\* point of the round before is not part of it.
C18_PointIsRoundPointThenMu ==
    [][pc = "gp_mu" =>
            /\ Len(gp.x) = gp.round
            /\ gp.round = 0 => gp.x = <<>>
            /\ \E mu \in Challenges :
                    /\ gp'.point = Append(gp.x, mu)
                    /\ gp'.claimed = layer_down_claim(gp.evals, mu)
            /\ Len(gp'.point) = gp.round + 1]_vars

\* a direct call returned after two rounds with a point of two elements
C18_Witness ==
    /\ entry = "verify_grand_product"
    /\ result = Ok
    /\ gp.rounds_done = 2
    /\ Len(gp.point) = 2

----------------------------------------------------------------------------
(* C19 *)

\* number of folding challenges squeezed by call k
MuCount(k) == Len(SelectSeq(Segment(k), LAMBDA e : e.what = "mu"))

\* C19: a successful verify_grand_product of num_vars >= 0 variables and a
\* positive number of lanes performs exactly num_vars rounds, has as many
\* claims as lanes after every round, and returns as many values as lanes
\* with a point of exactly num_vars elements.
C19_RoundsAndLengths ==
    /\ GrandProductComplete =>
            /\ Len(gp.opts) > 0
            /\ gp.rounds_done = gp.num_vars
            /\ MuCount(phase) = gp.num_vars
            /\ Len(gp.claimed) = Len(gp.opts)
            /\ Len(gp.point) = gp.num_vars
    /\ pc \in {"gp_first_leaves", "gp_gamma", "gp_return"} =>
            /\ Len(gp.claimed) = Len(gp.opts)
            /\ Len(gp.point) = gp.rounds_done
            /\ MuCount(phase) = gp.rounds_done
    /\ InGrandProduct => gp.round = gp.rounds_done /\ gp.rounds_done <= gp.num_vars
    /\ pc \in {"vm_openings", "vm_e_polys"} =>
            /\ Len(read_write_xs) = 2 * TotalMemories(chunks)
            /\ Len(init_final_read_ys) = 2 * TotalMemories(chunks)
            /\ Len(y) = chunks[1].chunk_bits

\* a direct call of two lanes over two variables has returned
C19_Witness ==
    /\ entry = "verify_grand_product"
    /\ result = Ok
    /\ gp.num_vars = 2
    /\ Len(gp.opts) = 2
    /\ Len(gp.claimed) = 2
    /\ MuCount(0) = 2

----------------------------------------------------------------------------
(* C20 *)

\* C20: in a round that runs the sum-check the leaves are compared with
\* nothing: whatever leaves are read the round goes on to squeeze mu (only a
\* failed read ends it), InvalidSumCheck("unmatched sum check output") comes
\* from the round of index 0 alone, and the leaves are used for the folded
\* claims of the next round and for nothing else.
C20_SumCheckRoundIgnoresLeaves ==
    [][/\ pc = "gp_leaves" =>
            /\ gp.round >= 1
            /\ \/ /\ result' = Running
                  /\ pc' = "gp_mu"
                  /\ gp'.evals \in SeqsOfLen(Felts, 2 * Len(gp.opts))
                  /\ gp' = [gp EXCEPT !.evals = gp'.evals]
               \/ /\ result' = ErrTranscript
                  /\ gp' = gp
       /\ (pc = "gp_mu" /\ gp.round >= 1) =>
            /\ result' = Running
            /\ \E mu \in Challenges :
                    gp' = [gp EXCEPT !.claimed = layer_down_claim(gp.evals, mu),
                                     !.point = Append(gp.x, mu),
                                     !.round = @ + 1, !.rounds_done = @ + 1,
                                     !.gamma = 0, !.x = <<>>, !.evals = <<>>]
       /\ result' = ErrUnmatched => gp'.round = 0]_vars

\* the second round of a call of two lanes read leaves that are no products of
\* anything the round could have compared them with, and went on
C20_Witness ==
    /\ pc = "gp_mu"
    /\ gp.round = 1
    /\ Len(gp.opts) = 2
    /\ gp.evals = <<1, 0, 0, 1>>
    /\ result = Running

----------------------------------------------------------------------------
(* C21 *)

\* C21: a chunk never has an empty memory list: after Chunk::new and any
\* add_memory calls num_memories() is 1 plus the number of the calls,
\* memory_indices() lists the memory indices in insertion order, and
\* chunk_bits() is the value given to new.
C21_ChunkNeverEmpty ==
    entry = "chunk" =>
        /\ Chunk_num_memories(chunks[1]) = 1 + Len(log)
        /\ Chunk_num_memories(chunks[1]) >= 1
        /\ Chunk_memory_indices(chunks[1]) =
                <<chunks0[1].memory[1].memory_index>>
                    \o [i \in 1 .. Len(log) |-> log[i].n]
        /\ Chunk_chunk_bits(chunks[1]) = chunks0[1].chunk_bits
        /\ chunks[1].chunk_index = chunks0[1].chunk_index

\* a chunk made with memory 2 was given the memories 0 and 1
C21_Witness ==
    /\ entry = "chunk"
    /\ Whats(log) = <<"memory", "memory">>
    /\ Chunk_memory_indices(chunks[1]) = <<2, 0, 1>>
    /\ Chunk_num_memories(chunks[1]) = 3

----------------------------------------------------------------------------
(* C22 *)

\* the verifier is the one of a range table
FromRangeTable ==
    \E NUM_BITS \in 1 .. MaxNumBits, LIMB_BITS \in 1 .. MaxLimbBits :
        chunks = RangeTableChunks(NUM_BITS, LIMB_BITS)

\* C22: in verify on the verifier of a range table the point y every subtable
\* polynomial is evaluated at is as long as the polynomial's num_vars, for every
\* memory of every chunk, so the length assertion of the evaluator never fails,
\* also when the last chunk is the remainder chunk.
C22_EvaluationLengthHolds ==
    (entry = "verify" /\ FromRangeTable) =>
        failure.step # "assert_eq x.len() == num_vars"

----------------------------------------------------------------------------
(* C23 *)

\* the memories (chunk, position) that check lane `lane`, lanes counted from 1
CheckersOfLane(lane) ==
    {ck \in (1 .. Len(chunks)) \X (1 .. MaxLanes) :
        /\ ck[2] <= Chunk_num_memories(chunks[ck[1]])
        /\ LanesBefore(ck[1]) + ck[2] = lane}

\* C23: in verify chunk c with m_c memories checks lanes [o_c, o_c + m_c) of
\* read_xs, write_xs, init_ys and final_read_ys, o_c being the number of
\* memories of the earlier chunks and M the total: the running offset is o_c
\* when chunk c is verified, no slice index exceeds M, the four slices are the
\* lanes o_c .. o_c + m_c - 1 of their vectors, and after the last chunk every
\* lane below M has been checked by exactly one memory, in chunk order.
C23_LanesByRunningOffset ==
    LET M == TotalMemories(chunks) IN
    /\ (entry = "verify" /\ pc \in {"vm_openings", "vm_e_polys"}) =>
            LET n == Chunk_num_memories(chunks[ci]) IN
            /\ ci \in 1 .. Len(chunks)
            /\ Len(collected) = ci - 1
            /\ offset = LanesBefore(ci)
            /\ offset + n <= M
            /\ Len(read_write_xs) = 2 * M
            /\ Len(init_final_read_ys) = 2 * M
            /\ \A half \in 1 .. 2 :
                    /\ LaneSlice(read_write_xs, half, M, offset, n) =
                            [k \in 1 .. n |->
                                read_write_xs[(half - 1) * M + offset + k]]
                    /\ LaneSlice(init_final_read_ys, half, M, offset, n) =
                            [k \in 1 .. n |->
                                init_final_read_ys[(half - 1) * M + offset + k]]
    /\ (entry = "verify" /\ result = Ok) =>
            /\ offset = M
            /\ ci = Len(chunks) + 1
            /\ \A lane \in 1 .. M : Cardinality(CheckersOfLane(lane)) = 1
            /\ \A c \in 1 .. Len(chunks) :
                    Len(collected[c].e_poly_xs) = Chunk_num_memories(chunks[c])

\* verify returned Ok on two chunks of one memory each: the second chunk was
\* checked at offset 1 with openings of its own
C23_Witness ==
    /\ entry = "verify"
    /\ result = Ok
    /\ Len(chunks) = 2
    /\ offset = 2
    /\ collected[1].dim_x # collected[2].dim_x

----------------------------------------------------------------------------
(* C24 *)

\* the 0-based indices of v in the slice of task t
SliceOf(t) == t.start .. (t.start + t.len - 1)

\* C24: with the parallel feature and any thread count t >= 1 parallelize(v, f)
\* hands every element of v to exactly one spawned task: the sub-slices are
\* pairwise disjoint and together cover v, each is passed with the index of
\* its first element as its offset, no element is ever written by two tasks,
\* parallelize returns only after every task has finished (every element has
\* then been written once, under its own index), it never panics, and for an
\* empty v no task is spawned.
C24_EveryElementToOneTask ==
    entry = "parallelize" =>
        LET n == Len(par.v)
            T == par.tasks
        IN
        /\ result # Panicked
        /\ pc = "parallelize" => T = <<>>
        /\ pc # "parallelize" =>
                /\ \A i, j \in 1 .. Len(T) :
                        i # j => SliceOf(T[i]) \cap SliceOf(T[j]) = {}
                /\ UNION {SliceOf(T[i]) : i \in 1 .. Len(T)} = 0 .. (n - 1)
                /\ \A i \in 1 .. Len(T) :
                        /\ T[i].len >= 1
                        /\ T[i].offset = T[i].start
                        /\ i > par.spawned => T[i].done = 0
                /\ Len(T) <= par.num_threads
                /\ n = 0 => T = <<>>
        /\ \A j \in 1 .. n :
                /\ Len(par.v[j]) <= 1
                /\ par.v[j] # <<>> => par.v[j] = <<j - 1>>
        /\ result = Ok =>
                /\ par.spawned = Len(T)
                /\ \A i \in 1 .. Len(T) : T[i].done = T[i].len
                /\ \A j \in 1 .. n : par.v[j] = <<j - 1>>

\* parallelize returned on five elements and three threads: two tasks of two
\* elements and one of one element, the last at offset 4
C24_Witness ==
    /\ entry = "parallelize"
    /\ result = Ok
    /\ Len(par.v) = 5
    /\ par.num_threads = 3
    /\ [i \in 1 .. Len(par.tasks) |-> par.tasks[i].offset] = <<0, 2, 4>>
    /\ [i \in 1 .. Len(par.tasks) |-> par.tasks[i].len] = <<2, 2, 1>>

====
